---- MODULE Spec2Model ----
(***************************************************************************)
(* Model of the RealTimeCanvas server (server.js): the room registry, the  *)
(* per-room drawing history with per-user redo stacks, and the Socket.IO   *)
(* event handlers that mutate them and emit messages.                      *)
(*                                                                         *)
(* JS Maps are modelled as functions whose DOMAIN is the set of keys.      *)
(* Geometry, colour and width of a stroke are passed through by the server *)
(* untouched and are left out.  Every stored stroke carries `eid`, the     *)
(* identity of the JS object pushed to the history (objects are moved      *)
(* between the history and the redo stacks, never copied).  roomName,      *)
(* userName, userColor and createdAt are stored and echoed but never read  *)
(* by a handler's logic, and are left out as well.  A connection is a      *)
(* member of Sockets; the server keeps no state for it before its first    *)
(* event, so 'connection' itself is no step.                               *)
(*                                                                         *)
(* Spec and SpecRoom have the server handle events as they arrive.         *)
(* SpecChan adds the clients (canvas.js, websocket.js) and the ordered     *)
(* channel of every connection, in both directions.                        *)
(***************************************************************************)
EXTENDS Integers, Sequences, FiniteSets, TLC

VARIABLES
    rooms,     \* the registry `rooms`: roomId -> [capacity, users,
               \* drawingHistory, userRedoStacks]
    sockRoom,  \* socket.roomId of every connection, Null while it is unset
    sioRooms,  \* the Socket.IO rooms every connection has joined (socket.join)
    status,    \* "open" until the connection's 'disconnect', then "closed"
    now,       \* Date.now(), as a logical clock that ticks with every stored stroke
    nextEid,   \* the number of stroke objects created so far
    ev,        \* the event handled last: its name, its socket (and, for a
               \* join-room, the roomId and isHost it carried)
    sent,      \* the messages the last handler emitted, in order; `to` is
               \* the set of connections a message is delivered to
    inbox,     \* per connection, the events its client has emitted that the
               \* server has not handled yet, oldest first
    outbox,    \* per connection, the messages emitted to it that its client
               \* has not received yet, oldest first
    view,      \* per client, the stored strokes it has drawn on its canvas
    remoteUsers, \* per client, the keys of its `remoteUsers` map
    lastFrom,  \* per client and sender, the number of the sender's last
               \* draw, draw-line or cursor-move the client has received
    sendOf,    \* for every stroke object (eid), the client event it stores
    nSent      \* the number of events the clients have emitted so far

\* the server
srvVars == <<rooms, sockRoom, sioRooms, status, now, nextEid, ev, sent>>

\* the clients and the channels between them and the server
chanVars == <<inbox, outbox, view, remoteUsers, lastFrom, sendOf, nSent>>

vars == <<srvVars, chanVars>>

----------------------------------------------------------------------------
(* Bounds of the model *)

Sockets == {"A", "B"}

RoomIds == {"r1", "r2"}

\* capacities a join-room request may carry (the server does not validate)
Capacities == {-1, 0, 1, 2}

\* number of stroke objects ever created, in Spec
MaxEvents == 1

\* number of stroke objects ever created, in SpecRoom
MaxRoomEvents == 3

\* the room and the capacity of the join-room requests of SpecRoom
TheRoom == "r1"

RoomCapacity == 2

\* the history limit of the 'draw' handler (1000 in server.js), scaled down
HistoryCap == 2

Null == "null"

Undefined == "undefined"

\* strokeId values a client may send
StrokeIdInputs == {Undefined, "s1", "s2"}

\* tool values of a 'draw' segment
DrawTools == {"brush", "eraser", "line"}

\* tool values of a 'draw-line' shape
ShapeTools == {"rectangle"}

\* positions a cursor-move may carry
CursorInputs == {<<0, 0>>, <<1, 2>>}

----------------------------------------------------------------------------
(* Helpers on sequences and maps *)

\* new Map()
EmptyMap == [x \in {} |-> Null]

\* Map.delete(k)
MapDelete(m, k) == [x \in (DOMAIN m) \ {k} |-> m[x]]

\* Map.set(k, v)
MapSet(m, k, v) == [x \in (DOMAIN m) \cup {k} |-> IF x = k THEN v ELSE m[x]]

\* mutant: all entries of the author of entry i are removed
RemoveAt_AllOfAuthor(h, i) == SelectSeq(h, LAMBDA e : e.userId # h[i].userId)

\* Array.splice(i, 1)
RemoveAt(h, i) == SubSeq(h, 1, i - 1) \o SubSeq(h, i + 1, Len(h))

\* x || null
OrNull(x) == IF x = Undefined THEN Null ELSE x

\* mutant: the backward scan stops at the last entry, whoever its author
LastIndexOfUser_Anyone(h, u) == Len(h)

\* index of the last entry of user u in h, 0 when there is none
\* (the backward scans of the undo handler)
LastIndexOfUser(h, u) ==
    LET I == {i \in 1..Len(h) : h[i].userId = u}
    IN  IF I = {} THEN 0 ELSE CHOOSE i \in I : \A j \in I : j <= i

----------------------------------------------------------------------------
(* Room registry helpers *)

NewRoom(capacity) ==
    [capacity |-> capacity,
     users |-> EmptyMap,
     drawingHistory |-> <<>>,
     userRedoStacks |-> EmptyMap]

\* mutant: the room is created anew even when the registry has it
createRoom_Reset(rs, roomId, capacity) == MapSet(rs, roomId, NewRoom(capacity))

createRoom(rs, roomId, capacity) ==
    IF roomId \notin DOMAIN rs
    THEN MapSet(rs, roomId, NewRoom(capacity))
    ELSE rs

\* mutant: the participant is inserted at another cursor position
addUserToRoom_Elsewhere(rs, roomId, userId) ==
    IF roomId \in DOMAIN rs /\ Cardinality(DOMAIN rs[roomId].users) < rs[roomId].capacity
    THEN [rs EXCEPT ![roomId].users = MapSet(@, userId, [x |-> 1, y |-> 2])]
    ELSE rs

addUserToRoom(rs, roomId, userId) ==
    IF roomId \in DOMAIN rs /\ Cardinality(DOMAIN rs[roomId].users) < rs[roomId].capacity
    THEN [rs EXCEPT ![roomId].users = MapSet(@, userId, [x |-> 0, y |-> 0])]
    ELSE rs

\* mutant: the user stays in the room
removeUserFromRoom_Keeps(rs, roomId, userId) == rs

\* mutant: a leave of a user the room does not have deletes the room
removeUserFromRoom_DropsRoom(rs, roomId, userId) ==
    IF roomId \in DOMAIN rs
    THEN IF userId \in DOMAIN rs[roomId].users /\ DOMAIN rs[roomId].users # {userId}
         THEN [rs EXCEPT ![roomId].users = MapDelete(@, userId)]
         ELSE MapDelete(rs, roomId)
    ELSE rs

\* mutant: the room is deleted at every leave, also when participants remain
removeUserFromRoom_DeletesAlways(rs, roomId, userId) ==
    IF roomId \in DOMAIN rs THEN MapDelete(rs, roomId) ELSE rs

\* mutant: the strokes of the user leave the history with the user
removeUserFromRoom_DropsStrokes(rs, roomId, userId) ==
    IF roomId \in DOMAIN rs
    THEN LET users1 == MapDelete(rs[roomId].users, userId)
         IN  IF DOMAIN users1 = {}
             THEN MapDelete(rs, roomId)
             ELSE [rs EXCEPT ![roomId].users = users1,
                             ![roomId].drawingHistory =
                                 SelectSeq(@, LAMBDA e : e.userId # userId)]
    ELSE rs

removeUserFromRoom(rs, roomId, userId) ==
    IF roomId \in DOMAIN rs
    THEN LET users1 == MapDelete(rs[roomId].users, userId)
         IN  IF DOMAIN users1 = {}
             THEN MapDelete(rs, roomId)
             ELSE [rs EXCEPT ![roomId].users = users1]
    ELSE rs

getRoomUsers(rs, roomId) ==
    IF roomId \in DOMAIN rs THEN rs[roomId].users ELSE EmptyMap

----------------------------------------------------------------------------
(* Message addressing *)

\* io.to(roomId): every socket currently joined to the Socket.IO room
IoTo(sio, roomId) == {t \in Sockets : roomId \in sio[t]}

\* socket.to(roomId): the same, except the sender
SocketTo(sio, s, roomId) == IoTo(sio, roomId) \ {s}

Msg(type, to, payload) == [type |-> type, to |-> to, payload |-> payload]

\* mutant: emitted with socket.to, which leaves the sender out
FullHistoryUpdate_NotSender(sio, s, roomId, history) ==
    Msg("full-history-update", SocketTo(sio, s, roomId), [history |-> history])

\* io.to(roomId).emit('full-history-update', { history }) in a handler of socket s
FullHistoryUpdate(sio, s, roomId, history) ==
    Msg("full-history-update", IoTo(sio, roomId), [history |-> history])

----------------------------------------------------------------------------
Init ==
    /\ rooms = EmptyMap
    /\ sockRoom = [s \in Sockets |-> Null]
    /\ sioRooms = [s \in Sockets |-> {}]
    /\ status = [s \in Sockets |-> "open"]
    /\ now = 0
    /\ nextEid = 0
    /\ ev = [op |-> "init"]
    /\ sent = <<>>
    /\ inbox = [s \in Sockets |-> <<>>]
    /\ outbox = [s \in Sockets |-> <<>>]
    /\ view = [s \in Sockets |-> {}]
    /\ remoteUsers = [s \in Sockets |-> {}]
    /\ lastFrom = [s \in Sockets |-> [u \in Sockets |-> 0]]
    /\ sendOf = EmptyMap
    /\ nSent = 0

\* mutant: the room is created whoever asks
RoomsAfterCreate_AnyJoiner(rs, roomId, capacity, isHost) ==
    createRoom(rs, roomId, capacity)

\* 'join-room': create the room if it doesn't exist and the user is host
RoomsAfterCreate(rs, roomId, capacity, isHost) ==
    IF isHost THEN createRoom(rs, roomId, capacity) ELSE rs

\* socket.on('join-room')
JoinRoom(s, roomId, capacity, isHost) ==
    /\ status[s] = "open"
    /\ ev' = [op |-> "join-room", sock |-> s, roomId |-> roomId, isHost |-> isHost]
    /\ LET rooms1 == RoomsAfterCreate(rooms, roomId, capacity, isHost)
       IN  IF roomId \notin DOMAIN rooms1
           THEN /\ sent' = <<Msg("room-error", {s}, "ERROR: Room not found")>>
                /\ rooms' = rooms1
                /\ UNCHANGED <<sockRoom, sioRooms>>
           ELSE IF Cardinality(DOMAIN rooms1[roomId].users) >= rooms1[roomId].capacity
           THEN /\ sent' = <<Msg("room-error", {s}, "ERROR: Room is full")>>
                /\ rooms' = rooms1
                /\ UNCHANGED <<sockRoom, sioRooms>>
           ELSE LET rooms2 == addUserToRoom(rooms1, roomId, s)
                    sio2 == [sioRooms EXCEPT ![s] = @ \cup {roomId}]
                    users == getRoomUsers(rooms2, roomId)
                    history == rooms2[roomId].drawingHistory
                IN  /\ rooms' = rooms2
                    /\ sioRooms' = sio2
                    /\ sockRoom' = [sockRoom EXCEPT ![s] = roomId]
                    /\ sent' = <<Msg("users-list", {s}, [users |-> users]),
                                 Msg("user-joined", SocketTo(sio2, s, roomId),
                                     [userId |-> s, users |-> users])>>
                                \o (IF Len(history) > 0
                                    THEN <<Msg("drawing-history", {s}, [history |-> history])>>
                                    ELSE <<>>)
    /\ UNCHANGED <<status, now, nextEid>>

\* mutant: the handlers do not check socket.roomId
Unjoined_Never(s) == FALSE

\* !socket.roomId: the connection has not joined a room
Unjoined(s) == sockRoom[s] = Null

\* the object pushed by 'draw' and 'draw-line'
Stroke(s, strokeId, t, eid) ==
    [userId |-> s, strokeId |-> OrNull(strokeId), timestamp |-> t, eid |-> eid]

\* mutant: the newest entry is dropped (pop) instead of the oldest
LimitHistory_Pop(h) == IF Len(h) > HistoryCap THEN SubSeq(h, 1, Len(h) - 1) ELSE h

\* limit history size: if (length > 1000) drawingHistory.shift()
LimitHistory(h) == IF Len(h) > HistoryCap THEN Tail(h) ELSE h

\* mutant: the sender's redo stack is kept
StoreDraw_KeepRedo(room, stroke) ==
    [room EXCEPT !.drawingHistory = LimitHistory(Append(@, stroke))]

\* 'draw': push, drop the sender's redo stack, limit the history size
StoreDraw(room, stroke) ==
    [room EXCEPT !.drawingHistory = LimitHistory(Append(@, stroke)),
                 !.userRedoStacks = MapDelete(@, stroke.userId)]

\* 'draw-line': push, drop the sender's redo stack
StoreDrawLine(room, stroke) ==
    [room EXCEPT !.drawingHistory = Append(@, stroke),
                 !.userRedoStacks = MapDelete(@, stroke.userId)]

\* mutant: every tool is stored
IsStoredTool_Any(tool) == TRUE

\* tool === 'brush' || tool === 'eraser'
IsStoredTool(tool) == tool = "brush" \/ tool = "eraser"

\* socket.on('draw')
Draw(s, tool, strokeId) ==
    /\ status[s] = "open"
    /\ ev' = [op |-> "draw", sock |-> s]
    /\ IF Unjoined(s)
       THEN /\ sent' = <<>>
            /\ UNCHANGED <<rooms, now, nextEid>>
       ELSE /\ IF IsStoredTool(tool) /\ sockRoom[s] \in DOMAIN rooms
               THEN /\ rooms' = [rooms EXCEPT ![sockRoom[s]] =
                                    StoreDraw(@, Stroke(s, strokeId, now, nextEid))]
                    /\ now' = now + 1
                    /\ nextEid' = nextEid + 1
               ELSE UNCHANGED <<rooms, now, nextEid>>
            /\ sent' = <<Msg("draw", SocketTo(sioRooms, s, sockRoom[s]),
                             [userId |-> s, tool |-> tool, strokeId |-> strokeId])>>
    /\ UNCHANGED <<sockRoom, sioRooms, status>>

\* socket.on('draw-line')
DrawLine(s, tool, strokeId) ==
    /\ status[s] = "open"
    /\ ev' = [op |-> "draw-line", sock |-> s]
    /\ IF Unjoined(s)
       THEN /\ sent' = <<>>
            /\ UNCHANGED <<rooms, now, nextEid>>
       ELSE /\ IF sockRoom[s] \in DOMAIN rooms
               THEN /\ rooms' = [rooms EXCEPT ![sockRoom[s]] =
                                    StoreDrawLine(@, Stroke(s, strokeId, now, nextEid))]
                    /\ now' = now + 1
                    /\ nextEid' = nextEid + 1
               ELSE UNCHANGED <<rooms, now, nextEid>>
            /\ sent' = <<Msg("draw-line", SocketTo(sioRooms, s, sockRoom[s]),
                             [userId |-> s, tool |-> tool, strokeId |-> strokeId])>>
    /\ UNCHANGED <<sockRoom, sioRooms, status>>

\* mutant: the redo stacks are kept
ClearRoom_HistoryOnly(room) == [room EXCEPT !.drawingHistory = <<>>]

\* 'clear-canvas': drawingHistory = [], userRedoStacks = new Map()
ClearRoom(room) ==
    [room EXCEPT !.drawingHistory = <<>>, !.userRedoStacks = EmptyMap]

\* socket.on('clear-canvas')
ClearCanvas(s) ==
    /\ status[s] = "open"
    /\ ev' = [op |-> "clear-canvas", sock |-> s]
    /\ IF Unjoined(s) \/ sockRoom[s] \notin DOMAIN rooms
       THEN /\ sent' = <<>>
            /\ UNCHANGED rooms
       ELSE /\ rooms' = [rooms EXCEPT ![sockRoom[s]] = ClearRoom(@)]
            /\ sent' = <<FullHistoryUpdate(sioRooms, s, sockRoom[s],
                                           rooms'[sockRoom[s]].drawingHistory)>>
    /\ UNCHANGED <<sockRoom, sioRooms, status, now, nextEid>>

\* mutant: the position is written to every participant of the room
MoveCursor_Everyone(room, s, x, y) ==
    [room EXCEPT !.users = [u \in DOMAIN room.users |-> [x |-> x, y |-> y]]]

\* 'cursor-move': user.x = x; user.y = y
MoveCursor(room, s, x, y) ==
    IF s \in DOMAIN room.users
    THEN [room EXCEPT !.users[s] = [x |-> x, y |-> y]]
    ELSE room

\* socket.on('cursor-move')
CursorMove(s, x, y) ==
    /\ status[s] = "open"
    /\ ev' = [op |-> "cursor-move", sock |-> s]
    /\ IF Unjoined(s)
       THEN /\ sent' = <<>>
            /\ UNCHANGED rooms
       ELSE /\ rooms' = IF sockRoom[s] \in DOMAIN rooms
                        THEN [rooms EXCEPT ![sockRoom[s]] = MoveCursor(@, s, x, y)]
                        ELSE rooms
            /\ sent' = <<Msg("cursor-move", SocketTo(sioRooms, s, sockRoom[s]),
                             [userId |-> s, x |-> x, y |-> y])>>
    /\ UNCHANGED <<sockRoom, sioRooms, status, now, nextEid>>

\* mutant: the groups of every user go on one stack
PushRedo_OneStack(stacks, s, group) ==
    LET k == CHOOSE u \in Sockets : TRUE
    IN  MapSet(stacks, k, Append(IF k \in DOMAIN stacks THEN stacks[k] ELSE <<>>, group))

\* mutant: the pushed group replaces the groups the stack held
PushRedo_Replace(stacks, s, group) == MapSet(stacks, s, <<group>>)

\* push a group on the user's redo stack, creating the stack when absent
PushRedo(stacks, s, group) ==
    MapSet(stacks, s, Append(IF s \in DOMAIN stacks THEN stacks[s] ELSE <<>>, group))

\* the strokeId of the last entry of user s, Null when it has none or no entry
TargetStrokeId(h, s) ==
    IF LastIndexOfUser(h, s) = 0 THEN Null ELSE h[LastIndexOfUser(h, s)].strokeId

\* mutant: the author is not compared
InGroup_AnyAuthor(e, s, sid) == e.strokeId = sid

\* is the entry one of user s with strokeId sid
InGroup(e, s, sid) == e.userId = s /\ e.strokeId = sid

\* mutant: only the last segment of the group is kept for redo
UndoGroup_LastOnly(h, s, sid) == <<h[LastIndexOfUser(h, s)]>>

\* mutant: every entry of the author is taken, whatever its strokeId
UndoGroup_AllOfAuthor(h, s, sid) == SelectSeq(h, LAMBDA e : e.userId = s)

\* the entries the grouped branch of undo removes, in history order
UndoGroup(h, s, sid) == SelectSeq(h, LAMBDA e : InGroup(e, s, sid))

\* mutant: only the entry found by the backward scan leaves the history
UndoRest_LastOnly(h, s, sid) == RemoveAt(h, LastIndexOfUser(h, s))

\* the history the grouped branch of undo leaves
UndoRest(h, s, sid) == SelectSeq(h, LAMBDA e : ~InGroup(e, s, sid))

\* 'undo': the room after the handler; unchanged when the user has no entry
UndoRoom(room, s) ==
    LET h == room.drawingHistory
        i == LastIndexOfUser(h, s)
        sid == TargetStrokeId(h, s)
    IN  IF sid = Null
        THEN IF i = 0
             THEN room
             ELSE [room EXCEPT !.drawingHistory = RemoveAt(h, i),
                               !.userRedoStacks = PushRedo(@, s, <<h[i]>>)]
        ELSE IF Len(UndoGroup(h, s, sid)) > 0
             THEN [room EXCEPT !.drawingHistory = UndoRest(h, s, sid),
                               !.userRedoStacks = PushRedo(@, s, UndoGroup(h, s, sid))]
             ELSE room

\* socket.on('undo')
Undo(s) ==
    /\ status[s] = "open"
    /\ ev' = [op |-> "undo", sock |-> s]
    /\ IF Unjoined(s) \/ sockRoom[s] \notin DOMAIN rooms
       THEN /\ sent' = <<>>
            /\ UNCHANGED rooms
       ELSE LET room == rooms[sockRoom[s]]
            IN  IF LastIndexOfUser(room.drawingHistory, s) = 0
                THEN /\ sent' = <<>>
                     /\ UNCHANGED rooms
                ELSE /\ rooms' = [rooms EXCEPT ![sockRoom[s]] = UndoRoom(room, s)]
                     /\ sent' = <<FullHistoryUpdate(sioRooms, s, sockRoom[s],
                                                    rooms'[sockRoom[s]].drawingHistory)>>
    /\ UNCHANGED <<sockRoom, sioRooms, status, now, nextEid>>

\* does 'redo' have a group to restore
CanRedo(room, s) ==
    /\ s \in DOMAIN room.userRedoStacks
    /\ Len(room.userRedoStacks[s]) > 0

\* mutant: the restored entries are put in front of the history
RedoRoom_Unshift(room, s) ==
    [room EXCEPT !.userRedoStacks[s] = SubSeq(@, 1, Len(@) - 1),
                 !.drawingHistory = room.userRedoStacks[s][Len(room.userRedoStacks[s])] \o @]

\* mutant: the oldest group is taken instead of the last one
RedoRoom_Oldest(room, s) ==
    [room EXCEPT !.userRedoStacks[s] = Tail(@),
                 !.drawingHistory = @ \o Head(room.userRedoStacks[s])]

\* mutant: the restored group stays on the redo stack
RedoRoom_KeepsStack(room, s) ==
    [room EXCEPT !.drawingHistory = @ \o room.userRedoStacks[s][Len(room.userRedoStacks[s])]]

\* 'redo': pop the last group and push its strokes back to the history
RedoRoom(room, s) ==
    LET stack == room.userRedoStacks[s]
        group == stack[Len(stack)]
    IN  [room EXCEPT !.userRedoStacks[s] = SubSeq(stack, 1, Len(stack) - 1),
                     !.drawingHistory = IF Len(group) > 0 THEN @ \o group ELSE @]

\* socket.on('redo')
Redo(s) ==
    /\ status[s] = "open"
    /\ ev' = [op |-> "redo", sock |-> s]
    /\ IF Unjoined(s) \/ sockRoom[s] \notin DOMAIN rooms
       THEN /\ sent' = <<>>
            /\ UNCHANGED rooms
       ELSE LET room == rooms[sockRoom[s]]
            IN  IF CanRedo(room, s)
                THEN /\ rooms' = [rooms EXCEPT ![sockRoom[s]] = RedoRoom(room, s)]
                     /\ sent' = IF Len(room.userRedoStacks[s][Len(room.userRedoStacks[s])]) > 0
                                THEN <<FullHistoryUpdate(sioRooms, s, sockRoom[s],
                                                         rooms'[sockRoom[s]].drawingHistory)>>
                                ELSE <<>>
                ELSE /\ sent' = <<>>
                     /\ UNCHANGED rooms
    /\ UNCHANGED <<sockRoom, sioRooms, status, now, nextEid>>

\* socket.on('disconnect'): the socket has already left its Socket.IO rooms
Disconnect(s) ==
    /\ status[s] = "open"
    /\ ev' = [op |-> "disconnect", sock |-> s]
    /\ status' = [status EXCEPT ![s] = "closed"]
    /\ sioRooms' = [sioRooms EXCEPT ![s] = {}]
    /\ IF sockRoom[s] # Null
       THEN /\ rooms' = removeUserFromRoom(rooms, sockRoom[s], s)
            /\ sent' = <<Msg("user-left", IoTo(sioRooms', sockRoom[s]),
                             [userId |-> s, users |-> getRoomUsers(rooms', sockRoom[s])])>>
       ELSE /\ sent' = <<>>
            /\ UNCHANGED rooms
    /\ UNCHANGED <<sockRoom, now, nextEid>>

----------------------------------------------------------------------------
(* The whole server: every handler, every room id, every capacity.  The    *)
(* number of stroke objects is bounded by MaxEvents.                       *)

\* the event is handled as it arrives: clients and channels are left out
Direct == UNCHANGED chanVars

Next ==
    \/ \E s \in Sockets, r \in RoomIds, c \in Capacities, h \in BOOLEAN : JoinRoom(s, r, c, h) /\ Direct
    \/ \E s \in Sockets, tool \in DrawTools, sid \in StrokeIdInputs :
          nextEid < MaxEvents /\ Draw(s, tool, sid) /\ Direct
    \/ \E s \in Sockets, tool \in ShapeTools, sid \in StrokeIdInputs :
          nextEid < MaxEvents /\ DrawLine(s, tool, sid) /\ Direct
    \/ \E s \in Sockets : ClearCanvas(s) /\ Direct
    \/ \E s \in Sockets, p \in CursorInputs : CursorMove(s, p[1], p[2]) /\ Direct
    \/ \E s \in Sockets : Undo(s) /\ Direct
    \/ \E s \in Sockets : Redo(s) /\ Direct
    \/ \E s \in Sockets : Disconnect(s) /\ Direct

Spec == Init /\ [][Next]_vars

----------------------------------------------------------------------------
(* The same server with clients that send no cursor-move and whose         *)
(* join-room requests all name the room TheRoom with capacity RoomCapacity.*)
(* That leaves room for more strokes: up to MaxRoomEvents stroke objects,  *)
(* enough to exceed HistoryCap.                                            *)

NextRoom ==
    \/ \E s \in Sockets, h \in BOOLEAN : JoinRoom(s, TheRoom, RoomCapacity, h) /\ Direct
    \/ \E s \in Sockets, tool \in DrawTools, sid \in StrokeIdInputs :
          nextEid < MaxRoomEvents /\ Draw(s, tool, sid) /\ Direct
    \/ \E s \in Sockets, tool \in ShapeTools, sid \in StrokeIdInputs :
          nextEid < MaxRoomEvents /\ DrawLine(s, tool, sid) /\ Direct
    \/ \E s \in Sockets : ClearCanvas(s) /\ Direct
    \/ \E s \in Sockets : Undo(s) /\ Direct
    \/ \E s \in Sockets : Redo(s) /\ Direct
    \/ \E s \in Sockets : Disconnect(s) /\ Direct

SpecRoom == Init /\ [][NextRoom]_vars

----------------------------------------------------------------------------
(* Vocabulary of the properties *)

\* the entries of a history (or of a redo group), as a set
Ents(h) == {h[i] : i \in 1..Len(h)}

\* the entries held by the redo stack of one user
StackEnts(stack) == UNION {Ents(stack[i]) : i \in 1..Len(stack)}

\* the entries held by all redo stacks of a room
RedoEnts(room) ==
    UNION {StackEnts(room.userRedoStacks[u]) : u \in DOMAIN room.userRedoStacks}

\* the entries of h that are not of user s, in order
Others(h, s) == SelectSeq(h, LAMBDA e : e.userId # s)

\* h without the entries in the set D, in order
Without(h, D) == SelectSeq(h, LAMBDA e : e \notin D)

\* socket s is bound to a room of the registry
Bound(s) == sockRoom[s] # Null /\ sockRoom[s] \in DOMAIN rooms

\* the step is the handler `op` run for socket s, bound to a room
StepOf(op, s) == ev'.op = op /\ ev'.sock = s /\ Bound(s)

\* the last handler run was `op` for socket s
Last(op, s) == ev.op = op /\ ev.sock = s

----------------------------------------------------------------------------
\* C1: an undo by author s removes only entries of s's most recent stroke
\* group (the entries of s with the strokeId of s's last entry, or that last
\* entry alone when it has no strokeId); the entries of every other author
\* stay in the log in their original relative order, and so do the entries
\* of s that stay.
C1_UndoAuthorScoped ==
    [][\A s \in Sockets : StepOf("undo", s) =>
          LET h == rooms[sockRoom[s]].drawingHistory
              h2 == rooms'[sockRoom[s]].drawingHistory
              i == LastIndexOfUser(h, s)
              removed == Ents(h) \ Ents(h2)
          IN  /\ Others(h2, s) = Others(h, s)
              /\ \A e \in removed :
                    /\ e.userId = s
                    /\ IF h[i].strokeId = Null THEN e = h[i]
                                               ELSE e.strokeId = h[i].strokeId
              /\ h2 = Without(h, removed)
              /\ i # 0 => h[i] \in removed
      ]_vars

\* C1 witness: A has undone a stroke that was drawn between two strokes of
\* B, which are both still in the log.
C1_Witness ==
    /\ Last("undo", "A")
    /\ Bound("A")
    /\ LET room == rooms[sockRoom["A"]]
       IN  /\ "A" \in DOMAIN room.userRedoStacks
           /\ \E a \in StackEnts(room.userRedoStacks["A"]) :
              \E i, j \in 1..Len(room.drawingHistory) :
                 /\ i < j
                 /\ room.drawingHistory[i].userId = "B"
                 /\ room.drawingHistory[j].userId = "B"
                 /\ room.drawingHistory[i].eid < a.eid
                 /\ a.eid < room.drawingHistory[j].eid

----------------------------------------------------------------------------
\* the room r of a registry, an empty room when the registry has none
RoomAt(rs, r) == IF r \in DOMAIN rs THEN rs[r] ELSE NewRoom(0)

\* the strokeIds a stored entry may carry, Null apart
StoredStrokeIds == {OrNull(x) : x \in StrokeIdInputs} \ {Null}

\* the entries of user u under strokeId sid that the room still holds
GroupOf(room, u, sid) ==
    {e \in Ents(room.drawingHistory) \cup RedoEnts(room) :
        e.userId = u /\ e.strokeId = sid}

\* these entries are all in the log, or all in one group of u's redo stack
Together(room, u, sid) ==
    \/ GroupOf(room, u, sid) \subseteq Ents(room.drawingHistory)
    \/ /\ u \in DOMAIN room.userRedoStacks
       /\ \E k \in 1..Len(room.userRedoStacks[u]) :
             GroupOf(room, u, sid) \subseteq Ents(room.userRedoStacks[u][k])

\* the entry that the step evicts from the log of room r: the oldest one,
\* when the step is a stored 'draw' that makes the log exceed HistoryCap
EvictedIn(r) ==
    IF /\ ev'.op = "draw"
       /\ nextEid' # nextEid
       /\ sockRoom[ev'.sock] = r
       /\ Len(RoomAt(rooms, r).drawingHistory) + 1 > HistoryCap
    THEN {Head(RoomAt(rooms, r).drawingHistory)}
    ELSE {}

\* in every room the stored segments of every group are together
GroupsTogether ==
    \A r \in DOMAIN rooms, u \in Sockets, sid \in StoredStrokeIds :
       Together(rooms[r], u, sid)

\* the stored segments of the group (u, sid) of room r that the step takes
\* away, when it takes a part of them and leaves the rest
PartTaken(r, u, sid) ==
    LET G == GroupOf(rooms[r], u, sid)
        G2 == GroupOf(rooms'[r], u, sid)
    IN  IF G \cap G2 = {} THEN {} ELSE G \ G2

\* C2 as claimed: the segments an author appended under one strokeId are
\* all in the log or all in one group of the author's redo stack, and no
\* step (draw, draw-line, undo, redo, eviction) takes away a part of them:
\* a step keeps them all or leaves none.
C2_GroupAtomicAlways ==
    /\ []GroupsTogether
    /\ [][\A r \in DOMAIN rooms \cap DOMAIN rooms' :
             rooms'[r] # rooms[r] =>
                \A u \in Sockets, sid \in StoredStrokeIds : PartTaken(r, u, sid) = {}
         ]_vars

\* C2 amended: the same, except that a 'draw' on a full log evicts the
\* oldest log entry alone, which may be one segment of a group; undo and
\* redo move all stored segments of a group together.
C2_GroupAtomicButEviction ==
    /\ []GroupsTogether
    /\ [][\A r \in DOMAIN rooms \cap DOMAIN rooms' :
             rooms'[r] # rooms[r] =>
                \A u \in Sockets, sid \in StoredStrokeIds :
                   PartTaken(r, u, sid) \subseteq EvictedIn(r)
         ]_vars

\* C2 witness: an undo has moved a group of two segments as one group to
\* the redo stack while another entry stays in the log.
C2_Witness ==
    \E s \in Sockets :
       /\ Last("undo", s)
       /\ Bound(s)
       /\ LET room == rooms[sockRoom[s]]
          IN  /\ Len(room.drawingHistory) > 0
              /\ s \in DOMAIN room.userRedoStacks
              /\ \E k \in 1..Len(room.userRedoStacks[s]) :
                    /\ Len(room.userRedoStacks[s][k]) = 2
                    /\ room.userRedoStacks[s][k][1].strokeId # Null
                    /\ room.userRedoStacks[s][k][1].strokeId
                          = room.userRedoStacks[s][k][2].strokeId

----------------------------------------------------------------------------
\* C3: from every reachable state in which s has an entry in the log, an
\* undo by s followed at once by a redo by s yields a log with the same
\* entries as before the undo (as a multiset), in which the restored
\* entries keep their relative order and so do all the other entries.
C3_RedoInvertsUndo ==
    \A r \in DOMAIN rooms, s \in Sockets :
       LET h == rooms[r].drawingHistory
           afterUndo == UndoRoom(rooms[r], s)
           afterRedo == RedoRoom(afterUndo, s)
           g == Ents(h) \ Ents(afterUndo.drawingHistory)
       IN  LastIndexOfUser(h, s) # 0 =>
              /\ CanRedo(afterUndo, s)
              /\ Len(afterRedo.drawingHistory) = Len(h)
              /\ Ents(afterRedo.drawingHistory) = Ents(h)
              /\ Without(afterRedo.drawingHistory, g) = Without(h, g)
              /\ Without(afterRedo.drawingHistory, Ents(h) \ g) = Without(h, Ents(h) \ g)

\* C3 witness: a redo by A right after A's undo has put A's stroke back,
\* behind a newer stroke of B.
C3_Witness ==
    /\ Last("redo", "A")
    /\ Len(sent) = 1
    /\ Bound("A")
    /\ LET h == rooms[sockRoom["A"]].drawingHistory
       IN  /\ Len(h) >= 2
           /\ h[Len(h)].userId = "A"
           /\ \E i \in 1..(Len(h) - 1) :
                 h[i].userId = "B" /\ h[i].eid > h[Len(h)].eid

----------------------------------------------------------------------------
\* C4: a stroke that author s appends ('draw' with brush or eraser, or
\* 'draw-line') leaves s with nothing to redo and leaves the redo stack of
\* every other author as it was; a redo by an author with nothing to redo
\* changes no room and sends nothing.
C4_AppendInvalidatesRedo ==
    [][\A s \in Sockets :
          /\ ((StepOf("draw", s) \/ StepOf("draw-line", s)) /\ nextEid' # nextEid) =>
                LET st == rooms[sockRoom[s]].userRedoStacks
                    st2 == rooms'[sockRoom[s]].userRedoStacks
                IN  /\ ~CanRedo(rooms'[sockRoom[s]], s)
                    /\ \A t \in Sockets \ {s} :
                          /\ t \in DOMAIN st <=> t \in DOMAIN st2
                          /\ t \in DOMAIN st => st2[t] = st[t]
          /\ (StepOf("redo", s) /\ ~CanRedo(rooms[sockRoom[s]], s)) =>
                rooms' = rooms /\ sent' = <<>>
      ]_vars

\* C4 witness: A's redo did nothing: A's undone stroke was discarded when A
\* drew again, while B still has a group to redo.
C4_Witness ==
    /\ Last("redo", "A")
    /\ sent = <<>>
    /\ Bound("A")
    /\ LET room == rooms[sockRoom["A"]]
       IN  /\ ~CanRedo(room, "A")
           /\ CanRedo(room, "B")
           /\ \E e \in Ents(room.drawingHistory) : e.userId = "A"
           /\ Len(room.drawingHistory) < HistoryCap
           /\ \E n \in 0..(nextEid - 1) :
                 \A e \in Ents(room.drawingHistory) \cup RedoEnts(room) : e.eid # n

----------------------------------------------------------------------------
\* C5: in every reachable state the log of every room holds at most
\* HistoryCap entries.
C5_HistoryWithinCap ==
    \A r \in DOMAIN rooms : Len(rooms[r].drawingHistory) <= HistoryCap

----------------------------------------------------------------------------
\* C6: a clear-canvas from a joined socket empties the log and all redo
\* stacks of its room in that one step, so that no author has anything to
\* redo; a redo that follows the clear in that room changes no room and
\* sends nothing.
C6_ClearIsRoomWide ==
    [][\A s \in Sockets :
          /\ StepOf("clear-canvas", s) =>
                /\ rooms'[sockRoom[s]].drawingHistory = <<>>
                /\ rooms'[sockRoom[s]].userRedoStacks = EmptyMap
                /\ \A t \in Sockets : ~CanRedo(rooms'[sockRoom[s]], t)
          /\ (StepOf("redo", s) /\ ev.op = "clear-canvas"
                /\ sockRoom[ev.sock] = sockRoom[s]) =>
                /\ rooms' = rooms
                /\ rooms[sockRoom[s]].drawingHistory = <<>>
                /\ sent' = <<>>
      ]_vars

\* C6 witness: in a room of two participants where all strokes of the
\* model were drawn, a redo found the log and all redo stacks emptied.
C6_Witness ==
    \E s \in Sockets :
       /\ Last("redo", s)
       /\ sent = <<>>
       /\ Bound(s)
       /\ nextEid = MaxRoomEvents
       /\ DOMAIN rooms[sockRoom[s]].users = Sockets
       /\ rooms[sockRoom[s]].drawingHistory = <<>>
       /\ rooms[sockRoom[s]].userRedoStacks = EmptyMap

----------------------------------------------------------------------------
\* the step is a join-room that was answered with the room-error `message`
JoinRejected(message) ==
    /\ ev'.op = "join-room"
    /\ sent' = <<Msg("room-error", {ev'.sock}, message)>>

\* C7: a join rejected with "Room is full" changes nothing: the registry
\* and every room are as before, and so is the binding of every socket.
C7_RoomFullNoMutation ==
    [][JoinRejected("ERROR: Room is full") =>
          rooms' = rooms /\ sockRoom' = sockRoom /\ sioRooms' = sioRooms
      ]_vars

----------------------------------------------------------------------------
\* C8: every room of the registry has at least one participant, and when
\* the only participant of a room disconnects the room leaves the registry
\* in that step.
C8_TeardownOnLastLeave ==
    [][/\ \A r \in DOMAIN rooms' : DOMAIN rooms'[r].users # {}
       /\ ev'.op = "disconnect" =>
             \A r \in DOMAIN rooms :
                DOMAIN rooms[r].users = {ev'.sock} => r \notin DOMAIN rooms'
      ]_vars

----------------------------------------------------------------------------
\* C9: a join-room that is not a host request and names a room that the
\* registry does not have is answered with one room-error, sent to the
\* sender alone, and changes nothing: no room, no participant, no binding.
C9_JoinUnknownRoom ==
    [][\A s \in Sockets, r \in RoomIds :
          (/\ ev' = [op |-> "join-room", sock |-> s, roomId |-> r, isHost |-> FALSE]
           /\ status[s] = "open"
           /\ r \notin DOMAIN rooms) =>
             /\ sent' = <<Msg("room-error", {s}, "ERROR: Room not found")>>
             /\ rooms' = rooms
             /\ sockRoom' = sockRoom
             /\ sioRooms' = sioRooms
      ]_vars

\* C9 witness: A, not joined, asked as a non-host for a room that does not
\* exist while B is in another room; A got the error and is still unjoined.
C9_Witness ==
    /\ Last("join-room", "A")
    /\ ~ev.isHost
    /\ ev.roomId \notin DOMAIN rooms
    /\ sent = <<Msg("room-error", {"A"}, "ERROR: Room not found")>>
    /\ sockRoom["A"] = Null
    /\ sioRooms["A"] = {}
    /\ \E r \in DOMAIN rooms : DOMAIN rooms[r].users = {"B"}

----------------------------------------------------------------------------
\* the participants of a room whose connection is open
OpenParticipants(room) == {t \in DOMAIN room.users : status[t] = "open"}

\* C10: a clear-canvas, and an undo or redo that changes the log, sends
\* exactly one message: a full-history-update to every participant of the
\* room with an open connection, the sender among them, whose payload is
\* the whole log of the room as the handler left it.
C10_FullResync ==
    [][\A s \in Sockets :
          (\/ StepOf("clear-canvas", s)
           \/ /\ StepOf("undo", s) \/ StepOf("redo", s)
              /\ rooms'[sockRoom[s]].drawingHistory # rooms[sockRoom[s]].drawingHistory) =>
             /\ sent' = <<Msg("full-history-update",
                              OpenParticipants(rooms'[sockRoom[s]]),
                              [history |-> rooms'[sockRoom[s]].drawingHistory])>>
             /\ s \in OpenParticipants(rooms'[sockRoom[s]])
      ]_vars

\* C10 witness: A's undo removed one stroke of three; A and B were both
\* sent the two entries that remain.
C10_Witness ==
    /\ Last("undo", "A")
    /\ Bound("A")
    /\ Len(rooms[sockRoom["A"]].drawingHistory) = 2
    /\ sent = <<Msg("full-history-update", {"A", "B"},
                    [history |-> rooms[sockRoom["A"]].drawingHistory])>>
----------------------------------------------------------------------------
\* the step is a join-room of socket s that succeeded (the handler got past
\* both checks and answered with the users-list)
JoinSucceeded(s) ==
    /\ ev'.op = "join-room"
    /\ ev'.sock = s
    /\ Len(sent') >= 1
    /\ sent'[1].type = "users-list"

\* the messages of type `type` among those the step sent, in order
SentOfType(type) == SelectSeq(sent', LAMBDA m : m.type = type)

\* C11: every successful join sends exactly one drawing-history message, to
\* the joiner alone, whose payload is the log of the joined room at join
\* time, also when that log is empty.
C11_JoinSendsHistory ==
    [][\A s \in Sockets : JoinSucceeded(s) =>
          SentOfType("drawing-history") =
             <<Msg("drawing-history", {s},
                   [history |-> rooms'[ev'.roomId].drawingHistory])>>
      ]_vars
----------------------------------------------------------------------------
\* the events a joined participant may send about the canvas
CanvasOps == {"draw", "draw-line", "clear-canvas", "cursor-move", "undo", "redo"}

\* C12: a draw, draw-line, clear-canvas, cursor-move, undo or redo from a
\* connection that has not successfully joined a room changes no room, no
\* binding and no stroke counter, and sends no message.
C12_UnjoinedDropped ==
    [][\A s \in Sockets :
          (ev'.op \in CanvasOps /\ ev'.sock = s /\ sockRoom[s] = Null) =>
             /\ rooms' = rooms
             /\ sockRoom' = sockRoom
             /\ sioRooms' = sioRooms
             /\ nextEid' = nextEid
             /\ sent' = <<>>
      ]_vars

\* C12 witness: A, which never joined, sent an undo while B's stroke is in
\* the log of B's room; nothing was sent and the stroke is still there.
C12_Witness ==
    /\ Last("undo", "A")
    /\ sockRoom["A"] = Null
    /\ sent = <<>>
    /\ Bound("B")
    /\ Len(rooms[sockRoom["B"]].drawingHistory) = 1
----------------------------------------------------------------------------
(* The server together with its clients and the channel of each connection.*)
(* A client (canvas.js, websocket.js) emits join-room once, when it has    *)
(* connected, and then canvas events; what it emits waits in `inbox` until  *)
(* the server handles it, and what the server emits to it waits in `outbox` *)
(* until the client receives it.  Both are first-in first-out: Socket.IO    *)
(* delivers the events of one connection in order, and a handler runs to    *)
(* completion before the next event is taken.  All join-room requests name  *)
(* TheRoom with capacity RoomCapacity.  A stored stroke is identified on    *)
(* both sides by the client event that carried it: <<sender, number>>.      *)

\* number of events the clients emit, in SpecChan
MaxSends == 4

\* strokeId values of the clients of SpecChan
ChanStrokeIds == {"s1", "s2"}

\* socket.emit(...) on the client: the event joins the connection's queue
Emit(s, e) ==
    /\ nSent < MaxSends
    /\ nSent' = nSent + 1
    /\ inbox' = [inbox EXCEPT ![s] = Append(@, e @@ [n |-> nSent + 1])]

\* the client has closed its connection, or the server has seen it closed
Gone(s) == status[s] = "closed" \/ \E i \in 1..Len(inbox[s]) : inbox[s][i].op = "disconnect"

\* the client has emitted its join-room: the request waits for the server,
\* or it succeeded, or its room-error is on the way, or the client has left
HasJoined(s) ==
    \/ sockRoom[s] # Null
    \/ \E i \in 1..Len(inbox[s]) : inbox[s][i].op = "join-room"
    \/ \E i \in 1..Len(outbox[s]) : outbox[s][i].type = "room-error"
    \/ Gone(s)

\* wsManager.joinRoom(...) after connect
SendJoin(s, isHost) ==
    /\ ~HasJoined(s)
    /\ ~Gone(s)
    /\ Emit(s, [op |-> "join-room", isHost |-> isHost])
    /\ UNCHANGED <<srvVars, outbox, view, remoteUsers, lastFrom, sendOf>>

\* draw(): the segment is drawn on the local canvas and sent
SendDraw(s, strokeId) ==
    /\ HasJoined(s)
    /\ ~Gone(s)
    /\ Emit(s, [op |-> "draw", tool |-> "brush", strokeId |-> strokeId])
    /\ view' = [view EXCEPT ![s] = @ \cup {<<s, nSent + 1>>}]
    /\ UNCHANGED <<srvVars, outbox, remoteUsers, lastFrom, sendOf>>

\* stopDrawing(): the finished shape is on the local canvas and is sent
SendDrawLine(s, strokeId) ==
    /\ HasJoined(s)
    /\ ~Gone(s)
    /\ Emit(s, [op |-> "draw-line", tool |-> "rectangle", strokeId |-> strokeId])
    /\ view' = [view EXCEPT ![s] = @ \cup {<<s, nSent + 1>>}]
    /\ UNCHANGED <<srvVars, outbox, remoteUsers, lastFrom, sendOf>>

\* clearCanvas(): both local canvases are cleared and clear-canvas is sent
SendClear(s) ==
    /\ HasJoined(s)
    /\ ~Gone(s)
    /\ Emit(s, [op |-> "clear-canvas"])
    /\ view' = [view EXCEPT ![s] = {}]
    /\ UNCHANGED <<srvVars, outbox, remoteUsers, lastFrom, sendOf>>

\* sendCursorMove, sendUndo, sendRedo: nothing changes locally
SendPlain(s, op) ==
    /\ HasJoined(s)
    /\ ~Gone(s)
    /\ Emit(s, [op |-> op])
    /\ UNCHANGED <<srvVars, outbox, view, remoteUsers, lastFrom, sendOf>>

\* the client closes; the server sees it after the events sent before
Close(s) ==
    /\ ~Gone(s)
    /\ Emit(s, [op |-> "disconnect"])
    /\ UNCHANGED <<srvVars, outbox, view, remoteUsers, lastFrom, sendOf>>

\* the oldest event of connection s is an `op`
Takes(s, op) == Len(inbox[s]) > 0 /\ Head(inbox[s]).op = op

\* a message as it travels to a client, with the number of the client
\* event whose handler emitted it and the connection that sent that event
InFlight(m, s, n) == [type |-> m.type, payload |-> m.payload, from |-> s, n |-> n]

\* the messages among msgs that are sent to connection t, as they travel
ToClient(msgs, t, s, n) ==
    LET mine == SelectSeq(msgs, LAMBDA m : t \in m.to)
    IN  [i \in 1..Len(mine) |-> InFlight(mine[i], s, n)]

\* mutant: a message overtakes those already waiting for the client
Enqueue_Overtaking(ob, msgs, s, n) ==
    [t \in Sockets |-> ToClient(msgs, t, s, n) \o ob[t]]

\* emit(...): each message joins the queue of every connection it is sent to
Enqueue(ob, msgs, s, n) ==
    [t \in Sockets |-> ob[t] \o ToClient(msgs, t, s, n)]

\* the handler of the oldest event of s has run: the event leaves the queue
\* and what the handler emitted is on its way
Handled(s) ==
    /\ inbox' = [inbox EXCEPT ![s] = Tail(@)]
    /\ outbox' = Enqueue(outbox, sent', s, Head(inbox[s]).n)
    /\ sendOf' = IF nextEid' # nextEid
                 THEN MapSet(sendOf, nextEid, <<s, Head(inbox[s]).n>>)
                 ELSE sendOf
    /\ UNCHANGED <<view, remoteUsers, lastFrom, nSent>>

\* the strokes of a history payload, by the client events that carried them
Ids(history) == {sendOf[history[i].eid] : i \in 1..Len(history)}

\* the message is a broadcast of a draw, draw-line or cursor-move
IsBroadcast(m) == m.type \in {"draw", "draw-line", "cursor-move"}

\* the canvas of a client after it has received message m:
\* drawing-history and remote segments are drawn on top of what is there,
\* full-history-update clears the canvas and redraws the payload
Receive(v, m) ==
    CASE m.type = "drawing-history" -> v \cup Ids(m.payload.history)
      [] m.type = "full-history-update" -> Ids(m.payload.history)
      [] m.type = "draw" /\ IsStoredTool(m.payload.tool) -> v \cup {<<m.from, m.n>>}
      [] m.type = "draw-line" -> v \cup {<<m.from, m.n>>}
      [] OTHER -> v

\* mutant: the client does nothing on user-left
ReceiveUsers_IgnoresLeft(ru, t, m) ==
    CASE m.type = "users-list" -> ru \cup (DOMAIN m.payload.users \ {t})
      [] m.type = "user-joined" -> ru \cup {m.payload.userId}
      [] OTHER -> ru

\* the keys of remoteUsers of client t after it has received message m:
\* users-list adds every listed user but the client itself (addRemoteUser),
\* user-joined adds the joiner, user-left deletes the leaver (removeRemoteUser)
ReceiveUsers(ru, t, m) ==
    CASE m.type = "users-list" -> ru \cup (DOMAIN m.payload.users \ {t})
      [] m.type = "user-joined" -> ru \cup {m.payload.userId}
      [] m.type = "user-left" -> ru \ {m.payload.userId}
      [] OTHER -> ru

\* the client of connection t receives the oldest message sent to it; on
\* a room-error it leaves the canvas page, which closes the connection
Deliver(t) ==
    /\ Len(outbox[t]) > 0
    /\ outbox' = [outbox EXCEPT ![t] = Tail(@)]
    /\ view' = [view EXCEPT ![t] = Receive(@, Head(outbox[t]))]
    /\ remoteUsers' = [remoteUsers EXCEPT ![t] = ReceiveUsers(@, t, Head(outbox[t]))]
    /\ lastFrom' = IF IsBroadcast(Head(outbox[t]))
                   THEN [lastFrom EXCEPT ![t][Head(outbox[t]).from] = Head(outbox[t]).n]
                   ELSE lastFrom
    /\ IF Head(outbox[t]).type = "room-error" /\ ~Gone(t)
       THEN /\ nSent' = nSent + 1
            /\ inbox' = [inbox EXCEPT ![t] = Append(@, [op |-> "disconnect", n |-> nSent + 1])]
       ELSE UNCHANGED <<inbox, nSent>>
    /\ UNCHANGED <<srvVars, sendOf>>

NextChan ==
    \/ \E s \in Sockets, h \in BOOLEAN : SendJoin(s, h)
    \/ \E s \in Sockets, sid \in ChanStrokeIds : SendDraw(s, sid)
    \/ \E s \in Sockets, sid \in ChanStrokeIds : SendDrawLine(s, sid)
    \/ \E s \in Sockets : SendClear(s)
    \/ \E s \in Sockets, op \in {"cursor-move", "undo", "redo"} : SendPlain(s, op)
    \/ \E s \in Sockets : Close(s)
    \/ \E s \in Sockets : Takes(s, "join-room")
          /\ JoinRoom(s, TheRoom, RoomCapacity, Head(inbox[s]).isHost) /\ Handled(s)
    \/ \E s \in Sockets : Takes(s, "draw")
          /\ Draw(s, Head(inbox[s]).tool, Head(inbox[s]).strokeId) /\ Handled(s)
    \/ \E s \in Sockets : Takes(s, "draw-line")
          /\ DrawLine(s, Head(inbox[s]).tool, Head(inbox[s]).strokeId) /\ Handled(s)
    \/ \E s \in Sockets : Takes(s, "clear-canvas")
          /\ ClearCanvas(s) /\ Handled(s)
    \/ \E s \in Sockets : Takes(s, "cursor-move")
          /\ CursorMove(s, 1, 2) /\ Handled(s)
    \/ \E s \in Sockets : Takes(s, "undo")
          /\ Undo(s) /\ Handled(s)
    \/ \E s \in Sockets : Takes(s, "redo")
          /\ Redo(s) /\ Handled(s)
    \/ \E s \in Sockets : Takes(s, "disconnect")
          /\ Disconnect(s) /\ Handled(s)
    \/ \E t \in Sockets : Deliver(t)

SpecChan == Init /\ [][NextChan]_vars
----------------------------------------------------------------------------
\* the step is the server handling the oldest waiting event of connection s
Handles(s) == Len(inbox[s]) > 0 /\ inbox'[s] = Tail(inbox[s])

\* the position of entry e in the history h, 0 when it is not there
PosIn(h, e) ==
    LET I == {i \in 1..Len(h) : h[i] = e}
    IN  IF I = {} THEN 0 ELSE CHOOSE i \in I : TRUE

\* the broadcasts among the messages q that come from sender s, in order
BroadcastsFrom(q, s) == SelectSeq(q, LAMBDA m : IsBroadcast(m) /\ m.from = s)

\* the events of every connection wait in the order they were emitted, and
\* so do the broadcasts of one sender that wait for one client, all of them
\* newer than the last one the client has received from that sender
InOrder ==
    /\ \A s \in Sockets : \A i, j \in 1..Len(inbox[s]) :
          i < j => inbox[s][i].n < inbox[s][j].n
    /\ \A t, s \in Sockets :
          LET q == BroadcastsFrom(outbox[t], s)
          IN  /\ \A i, j \in 1..Len(q) : i < j => q[i].n < q[j].n
              /\ \A i \in 1..Len(q) : lastFrom[t][s] < q[i].n

----------------------------------------------------------------------------
\* C14: a connection that has disconnected is a participant of no room,
\* whatever join-room events it sent before.
C14_NoParticipantAfterDisconnect ==
    \A s \in Sockets : status[s] = "closed" =>
       \A r \in DOMAIN rooms : s \notin DOMAIN rooms[r].users
----------------------------------------------------------------------------
\* createRoom leaves a registry that has the room as it is, and calling it
\* twice is the same as calling it once
CreateRoomIdempotent ==
    \A r \in RoomIds, c1, c2 \in Capacities :
       /\ r \in DOMAIN rooms => createRoom(rooms, r, c1) = rooms
       /\ createRoom(createRoom(rooms, r, c1), r, c2) = createRoom(rooms, r, c1)

\* C15: createRoom is a no-op for a roomId the registry has, and a host
\* join to such a room, whatever capacity it carries, leaves the room's
\* capacity, history and redo stacks as they were and keeps every
\* participant, each other participant with its record unchanged.
C15_HostJoinKeepsRoom ==
    /\ []CreateRoomIdempotent
    /\ [][\A r \in DOMAIN rooms :
             (ev'.op = "join-room" /\ ev'.roomId = r /\ ev'.isHost) =>
                /\ r \in DOMAIN rooms'
                /\ rooms'[r].capacity = rooms[r].capacity
                /\ rooms'[r].drawingHistory = rooms[r].drawingHistory
                /\ rooms'[r].userRedoStacks = rooms[r].userRedoStacks
                /\ DOMAIN rooms[r].users \subseteq DOMAIN rooms'[r].users
                /\ \A u \in DOMAIN rooms[r].users \ {ev'.sock} :
                      rooms'[r].users[u] = rooms[r].users[u]
         ]_vars

\* C15 witness: B's host join found the room that A had created, with A's
\* stroke in its log and A's cursor moved or not, and joined it: the room
\* has both participants, the stroke and its capacity, for which createRoom
\* with another capacity is a no-op.
C15_Witness ==
    /\ Last("join-room", "B")
    /\ ev.isHost
    /\ ev.roomId \in DOMAIN rooms
    /\ LET room == rooms[ev.roomId]
       IN  /\ DOMAIN room.users = {"A", "B"}
           /\ Len(room.drawingHistory) = 1
           /\ room.drawingHistory[1].userId = "A"
           /\ room.capacity = 2
           /\ \E c \in Capacities \ {room.capacity} :
                 createRoom(rooms, ev.roomId, c) = rooms
----------------------------------------------------------------------------
\* C16: leave is idempotent.  From every reachable registry, for every room
\* id and every connection, removeUserFromRoom applied twice yields the
\* registry that applying it once yields; in particular a leave of a
\* participant that has been removed already changes nothing.
C16_LeaveIdempotent ==
    \A r \in RoomIds, u \in Sockets :
       /\ removeUserFromRoom(removeUserFromRoom(rooms, r, u), r, u)
             = removeUserFromRoom(rooms, r, u)
       /\ (r \in DOMAIN rooms /\ DOMAIN rooms[r].users # {}
             /\ u \notin DOMAIN rooms[r].users) =>
             removeUserFromRoom(rooms, r, u) = rooms

\* C16 witness: A has disconnected from a room in which B stays and which
\* holds a stroke; a second leave of A from that room changes nothing.
C16_Witness ==
    /\ Last("disconnect", "A")
    /\ sockRoom["A"] \in DOMAIN rooms
    /\ DOMAIN rooms[sockRoom["A"]].users = {"B"}
    /\ Len(rooms[sockRoom["A"]].drawingHistory) = 1
    /\ removeUserFromRoom(rooms, sockRoom["A"], "A") = rooms
----------------------------------------------------------------------------
\* no event waits for the server and no message waits for a client
Quiet ==
    \A s \in Sockets : inbox[s] = <<>> /\ outbox[s] = <<>>

\* the stored strokes of a room's log, by the client events that carried them
LogIds(room) == Ids(room.drawingHistory)

\* C17: identical reconstruction.  Whenever nothing is in flight, every
\* participant of a room whose connection is open has on its canvas exactly
\* the stored strokes that the log of the room holds (so that any two
\* participants of the room have the same ones).
C17_IdenticalViews ==
    Quiet =>
       \A r \in DOMAIN rooms : \A t \in OpenParticipants(rooms[r]) :
          view[t] = LogIds(rooms[r])
----------------------------------------------------------------------------
\* C18: in every reachable state the number of participants of every room
\* is at most the capacity of the room.
C18_WithinCapacity ==
    \A r \in DOMAIN rooms :
       Cardinality(DOMAIN rooms[r].users) <= rooms[r].capacity
----------------------------------------------------------------------------
\* C19: a stored 'draw' (brush or eraser) of socket s on a log that holds
\* exactly HistoryCap entries removes the oldest entry, whoever its author,
\* keeps all other entries in their order and puts the new entry, an entry
\* of s, last; the evicted entry is in no redo stack either.
C19_EvictionFifo ==
    [][\A s \in Sockets :
          (/\ StepOf("draw", s)
           /\ nextEid' # nextEid
           /\ Len(rooms[sockRoom[s]].drawingHistory) = HistoryCap) =>
             LET h == rooms[sockRoom[s]].drawingHistory
                 h2 == rooms'[sockRoom[s]].drawingHistory
             IN  /\ Len(h2) = HistoryCap
                 /\ SubSeq(h2, 1, Len(h2) - 1) = Tail(h)
                 /\ h2[Len(h2)].userId = s
                 /\ h2[Len(h2)].eid = nextEid
                 /\ Head(h) \notin Ents(h2) \cup RedoEnts(rooms'[sockRoom[s]])
      ]_vars

\* C19 witness: A's draw on a full log evicted the oldest entry: the first
\* stroke object is gone from the room, and the log holds the entry that
\* was second, an entry of B, and then A's new one.
C19_Witness ==
    /\ Last("draw", "A")
    /\ Bound("A")
    /\ nextEid = HistoryCap + 1
    /\ LET room == rooms[sockRoom["A"]]
       IN  /\ Len(room.drawingHistory) = HistoryCap
           /\ room.drawingHistory[1].userId = "B"
           /\ room.drawingHistory[HistoryCap].userId = "A"
           /\ room.drawingHistory[HistoryCap].eid = HistoryCap
           /\ \A e \in Ents(room.drawingHistory) \cup RedoEnts(room) : e.eid # 0
           /\ \A u \in Sockets : ~CanRedo(room, u)
----------------------------------------------------------------------------
\* the redo stack of user u in a room, empty when the room keeps none
StackOf(room, u) ==
    IF u \in DOMAIN room.userRedoStacks THEN room.userRedoStacks[u] ELSE <<>>

\* C20: when the most recent log entry of author s has a strokeId, an undo
\* by s removes from the log every entry of s with that strokeId, wherever
\* it is, and nothing else, and pushes exactly those entries, in their log
\* order, as one group on top of the redo stack of s; the redo stacks of
\* the other authors stay as they were.
C20_UndoGrouped ==
    [][\A s \in Sockets :
          (/\ StepOf("undo", s)
           /\ LastIndexOfUser(rooms[sockRoom[s]].drawingHistory, s) # 0
           /\ TargetStrokeId(rooms[sockRoom[s]].drawingHistory, s) # Null) =>
             LET room == rooms[sockRoom[s]]
                 room2 == rooms'[sockRoom[s]]
                 h == room.drawingHistory
                 sid == h[LastIndexOfUser(h, s)].strokeId
                 G == {e \in Ents(h) : e.userId = s /\ e.strokeId = sid}
             IN  /\ room2.drawingHistory = Without(h, G)
                 /\ StackOf(room2, s) = Append(StackOf(room, s), Without(h, Ents(h) \ G))
                 /\ \A u \in Sockets \ {s} : StackOf(room2, u) = StackOf(room, u)
      ]_vars

\* C20 witness: A's undo took the two segments of a group that were apart
\* in the log, an entry of B between them; they are one group on A's redo
\* stack, in log order, and B's entry is what the log holds.
C20_Witness ==
    /\ Last("undo", "A")
    /\ Bound("A")
    /\ LET room == rooms[sockRoom["A"]]
       IN  /\ Len(room.drawingHistory) = 1
           /\ room.drawingHistory[1].userId = "B"
           /\ room.drawingHistory[1].eid = 1
           /\ Len(StackOf(room, "A")) = 1
           /\ Len(StackOf(room, "A")[1]) = 2
           /\ StackOf(room, "A")[1][1].eid = 0
           /\ StackOf(room, "A")[1][2].eid = 2
           /\ StackOf(room, "A")[1][1].strokeId # Null
----------------------------------------------------------------------------
\* C21: when the most recent log entry of author s has no strokeId, an undo
\* by s removes that one entry from the log and nothing else (no earlier
\* entry of s, grouped or not), and pushes it as a group of one on top of
\* the redo stack of s; the redo stacks of the others stay as they were.
C21_UndoUngrouped ==
    [][\A s \in Sockets :
          (/\ StepOf("undo", s)
           /\ LastIndexOfUser(rooms[sockRoom[s]].drawingHistory, s) # 0
           /\ rooms[sockRoom[s]].drawingHistory[
                 LastIndexOfUser(rooms[sockRoom[s]].drawingHistory, s)].strokeId = Null) =>
             LET room == rooms[sockRoom[s]]
                 room2 == rooms'[sockRoom[s]]
                 h == room.drawingHistory
                 last == h[LastIndexOfUser(h, s)]
             IN  /\ room2.drawingHistory = Without(h, {last})
                 /\ Len(room2.drawingHistory) = Len(h) - 1
                 /\ StackOf(room2, s) = Append(StackOf(room, s), <<last>>)
                 /\ \A u \in Sockets \ {s} : StackOf(room2, u) = StackOf(room, u)
      ]_vars

\* C21 witness: A's undo took A's last entry, which has no strokeId, as a
\* group of one, and left in the log both an earlier entry of A without
\* strokeId and an earlier grouped entry of A.
C21_Witness ==
    /\ Last("undo", "A")
    /\ Bound("A")
    /\ LET room == rooms[sockRoom["A"]]
       IN  /\ Len(room.drawingHistory) = 2
           /\ \A i \in 1..2 : room.drawingHistory[i].userId = "A"
           /\ \E i \in 1..2 : room.drawingHistory[i].strokeId = Null
           /\ \E i \in 1..2 : room.drawingHistory[i].strokeId # Null
           /\ StackOf(room, "A") = <<<<[userId |-> "A", strokeId |-> Null,
                                        timestamp |-> 2, eid |-> 2]>>>>

----------------------------------------------------------------------------
\* C22: an undo of a joined author who has no entry in the log changes no
\* room (so neither the log nor any redo stack) and sends no message.
C22_EmptyUndoNoOp ==
    [][\A s \in Sockets :
          (/\ StepOf("undo", s)
           /\ \A e \in Ents(rooms[sockRoom[s]].drawingHistory) : e.userId # s) =>
             /\ rooms' = rooms
             /\ sent' = <<>>
      ]_vars

\* C22 witness: A's undo found only entries of B in the log, and B with a
\* group to redo; the log and B's redo stack are there and nothing was sent.
C22_Witness ==
    /\ Last("undo", "A")
    /\ Bound("A")
    /\ sent = <<>>
    /\ LET room == rooms[sockRoom["A"]]
       IN  /\ Len(room.drawingHistory) = 2
           /\ \A e \in Ents(room.drawingHistory) : e.userId = "B"
           /\ CanRedo(room, "B")
           /\ ~CanRedo(room, "A")

----------------------------------------------------------------------------
\* C23: a redo of author s who has a group to redo takes the group pushed
\* last from the redo stack of s and appends its entries, in their stored
\* order, behind the last log entry; the entries that were in the log stay
\* where they were and the redo stacks of the others stay as they were.  A
\* redo of an author whose redo stack is empty or absent changes no room
\* and sends nothing.
C23_RedoLifoAppend ==
    [][\A s \in Sockets :
          /\ (StepOf("redo", s) /\ Len(StackOf(rooms[sockRoom[s]], s)) > 0) =>
                LET room == rooms[sockRoom[s]]
                    room2 == rooms'[sockRoom[s]]
                    stack == StackOf(room, s)
                IN  /\ room2.drawingHistory = room.drawingHistory \o stack[Len(stack)]
                    /\ StackOf(room2, s) = SubSeq(stack, 1, Len(stack) - 1)
                    /\ \A u \in Sockets \ {s} : StackOf(room2, u) = StackOf(room, u)
          /\ (StepOf("redo", s) /\ Len(StackOf(rooms[sockRoom[s]], s)) = 0) =>
                rooms' = rooms /\ sent' = <<>>
      ]_vars

\* C23 witness: A had undone two groups; A's redo took the one undone last,
\* the older stroke, and put it behind B's entry; the other group is still
\* on A's redo stack.
C23_Witness ==
    /\ Last("redo", "A")
    /\ Bound("A")
    /\ LET room == rooms[sockRoom["A"]]
       IN  /\ Len(room.drawingHistory) = 2
           /\ room.drawingHistory[1].userId = "B"
           /\ room.drawingHistory[2].userId = "A"
           /\ Len(StackOf(room, "A")) = 1
           /\ Len(StackOf(room, "A")[1]) = 1
           /\ StackOf(room, "A")[1][1].eid > room.drawingHistory[2].eid
----------------------------------------------------------------------------
\* C24: a 'draw' of a joined participant s is stored if and only if its
\* tool is brush or eraser; the stored entry is an entry of s with the
\* strokeId of the segment, at the end of the log.  In both cases exactly
\* one 'draw' message is sent, to every other participant of the room with
\* an open connection and not to s, with the id of s, the tool and the
\* strokeId.  A draw that is not stored leaves the room, so its log and all
\* redo stacks, unchanged.
C24_DrawStoredIffStroke ==
    [][\A s \in Sockets : StepOf("draw", s) =>
          LET room == rooms[sockRoom[s]]
              room2 == rooms'[sockRoom[s]]
              h2 == room2.drawingHistory
          IN  /\ Len(sent') = 1
              /\ sent'[1].type = "draw"
              /\ sent'[1].to = OpenParticipants(room) \ {s}
              /\ sent'[1].payload.userId = s
              /\ sent'[1].payload.tool \in DrawTools
              /\ sent'[1].payload.strokeId \in StrokeIdInputs
              /\ IF sent'[1].payload.tool \in {"brush", "eraser"}
                 THEN /\ nextEid' = nextEid + 1
                      /\ Len(h2) > 0
                      /\ h2[Len(h2)].eid = nextEid
                      /\ h2[Len(h2)].userId = s
                      /\ h2[Len(h2)].strokeId = OrNull(sent'[1].payload.strokeId)
                      /\ Len(room.drawingHistory) < HistoryCap =>
                            SubSeq(h2, 1, Len(h2) - 1) = room.drawingHistory
                 ELSE /\ nextEid' = nextEid
                      /\ rooms' = rooms
      ]_vars

\* C24 witness: A sent a draw with a tool that is not stored; B was sent
\* the segment, and the log, which holds an entry of B, and A's redo
\* stack, which holds a group, are as they were.
C24_Witness ==
    /\ Last("draw", "A")
    /\ Bound("A")
    /\ Len(sent) = 1
    /\ sent[1].to = {"B"}
    /\ sent[1].payload.tool = "line"
    /\ sent[1].payload.strokeId = "s1"
    /\ LET room == rooms[sockRoom["A"]]
       IN  /\ CanRedo(room, "A")
           /\ Len(room.drawingHistory) = 1
           /\ room.drawingHistory[1].userId = "B"
----------------------------------------------------------------------------
----------------------------------------------------------------------------
\* the participants of a room whose connection is open after the step
OpenParticipantsAfter(room) == {t \in DOMAIN room.users : status'[t] = "open"}

\* C26: the disconnect of a connection s bound to a room sends exactly one
\* user-left, to the participants that remain in that room with an open
\* connection, with the id of s and the participants of the room after the
\* removal, s not among them; when the removal emptied the room, the room
\* is gone and the list is empty.
C26_LeaveAnnounced ==
    [][\A s \in Sockets :
          (ev'.op = "disconnect" /\ ev'.sock = s /\ status[s] = "open"
             /\ sockRoom[s] # Null) =>
             LET r == sockRoom[s]
                 residual == IF r \in DOMAIN rooms' THEN rooms'[r].users ELSE EmptyMap
             IN  /\ sent' = <<Msg("user-left",
                                  OpenParticipantsAfter(RoomAt(rooms', r)) \ {s},
                                  [userId |-> s, users |-> residual])>>
                 /\ s \notin DOMAIN residual
                 /\ r \in DOMAIN rooms =>
                       /\ DOMAIN residual = DOMAIN rooms[r].users \ {s}
                       /\ \A u \in DOMAIN residual : residual[u] = rooms[r].users[u]
                       /\ DOMAIN residual = {} <=> r \notin DOMAIN rooms'
      ]_vars

\* C26 witness: A left the room in which B stays with a moved cursor; B was
\* sent user-left with the list that holds B alone.
C26_Witness ==
    /\ Last("disconnect", "A")
    /\ sockRoom["A"] \in DOMAIN rooms
    /\ rooms[sockRoom["A"]].users = [u \in {"B"} |-> [x |-> 1, y |-> 2]]
    /\ sent = <<Msg("user-left", {"B"},
                    [userId |-> "A", users |-> rooms[sockRoom["A"]].users])>>

----------------------------------------------------------------------------
\* C27: a cursor-move of a joined participant s writes the x and y it
\* carries, whatever they are, to the record of s in its room and changes
\* nothing else: not the log, the redo stacks or the capacity of the room,
\* not the record of any other participant, not any other room.
C27_CursorMoveFrame ==
    [][\A s \in Sockets :
          (StepOf("cursor-move", s) /\ s \in DOMAIN rooms[sockRoom[s]].users) =>
             /\ Len(sent') = 1
             /\ sent'[1].type = "cursor-move"
             /\ <<sent'[1].payload.x, sent'[1].payload.y>> \in CursorInputs
             /\ rooms' = [rooms EXCEPT ![sockRoom[s]].users[s] =
                             [x |-> sent'[1].payload.x, y |-> sent'[1].payload.y]]
      ]_vars

\* C27 witness: A moved its cursor to (1,2) in a room where B's cursor is
\* at (0,0) and the log holds an entry.
C27_Witness ==
    /\ Last("cursor-move", "A")
    /\ Bound("A")
    /\ LET room == rooms[sockRoom["A"]]
       IN  /\ DOMAIN room.users = {"A", "B"}
           /\ room.users["A"] = [x |-> 1, y |-> 2]
           /\ room.users["B"] = [x |-> 0, y |-> 0]
           /\ Len(room.drawingHistory) = 1
----------------------------------------------------------------------------
\* C28: in every reachable state the timestamps of the entries of every
\* log are non-decreasing in log order.
C28_TimestampsOrdered ==
    \A r \in DOMAIN rooms :
       \A i, j \in 1..Len(rooms[r].drawingHistory) :
          i < j => rooms[r].drawingHistory[i].timestamp
                      <= rooms[r].drawingHistory[j].timestamp

----------------------------------------------------------------------------
\* the entries of author u in the history h, in order
OfAuthor(h, u) == SelectSeq(h, LAMBDA e : e.userId = u)

\* C29: in every reachable state, among the log entries of one author, the
\* entries that share a strokeId are contiguous.
C29_GroupsContiguous ==
    \A r \in DOMAIN rooms, u \in Sockets :
       LET a == OfAuthor(rooms[r].drawingHistory, u)
       IN  \A i, j, k \in 1..Len(a) :
              (i < j /\ j < k /\ a[i].strokeId # Null /\ a[i].strokeId = a[k].strokeId)
                 => a[j].strokeId = a[i].strokeId
----------------------------------------------------------------------------
\* room q is the same before and after the step, its existence included
RoomUntouched(q) ==
    /\ (q \in DOMAIN rooms) <=> (q \in DOMAIN rooms')
    /\ q \in DOMAIN rooms => rooms'[q] = rooms[q]

\* every message of the step goes only to participants of room R
SentWithin(R) ==
    \A i \in 1..Len(sent') :
       sent'[i].to \subseteq (DOMAIN RoomAt(rooms, R).users \cup DOMAIN RoomAt(rooms', R).users)

\* C30: room isolation: an event from a connection bound to room R leaves
\* every other room as it was (participants, history, redo stacks) and
\* every message it triggers goes only to participants of R.
C30_RoomIsolation ==
    [][\A s \in Sockets : (ev'.op # "init" /\ ev'.sock = s /\ sockRoom[s] # Null) =>
          /\ \A q \in RoomIds \ {sockRoom[s]} : RoomUntouched(q)
          /\ SentWithin(sockRoom[s])
      ]_vars

\* the same isolation, for every event but join-room
C30_IsolationButJoin ==
    [][\A s \in Sockets : (ev'.op \notin {"init", "join-room"} /\ ev'.sock = s /\ sockRoom[s] # Null) =>
          /\ \A q \in RoomIds \ {sockRoom[s]} : RoomUntouched(q)
          /\ SentWithin(sockRoom[s])
      ]_vars
----------------------------------------------------------------------------
\* the rooms of the registry that have socket s among their participants
RoomsHolding(s) == {r \in DOMAIN rooms : s \in DOMAIN rooms[r].users}

\* C31: in every reachable state a connection id is a key of at most one
\* room's participants map, also after several join-room events of the
\* same connection with different roomIds.
C31_InOneRoomAtMost ==
    \A s \in Sockets : Cardinality(RoomsHolding(s)) <= 1

----------------------------------------------------------------------------
\* C32: whenever an open connection is bound to a room (socket.roomId is
\* set), that room is in the registry and the connection is one of its
\* participants; the capacity of such a room is always positive.
C32_BoundIsParticipant ==
    \A s \in Sockets : (status[s] = "open" /\ sockRoom[s] # Null) =>
       /\ sockRoom[s] \in DOMAIN rooms
       /\ s \in DOMAIN rooms[sockRoom[s]].users
       /\ rooms[sockRoom[s]].capacity > 0

\* C32 witness: B has left the room that A and B had joined; A is still
\* bound to it and is its only participant.
C32_Witness ==
    /\ Last("disconnect", "B")
    /\ sockRoom["B"] # Null
    /\ sockRoom["A"] = sockRoom["B"]
    /\ status["A"] = "open"
    /\ sockRoom["A"] \in DOMAIN rooms
    /\ DOMAIN rooms[sockRoom["A"]].users = {"A"}
----------------------------------------------------------------------------
\* the places of a room that hold a stroke object: a position of the log,
\* or a position of a group of a user's redo stack
Places(room) ==
    {<<"log", Null, 0, i>> : i \in 1..Len(room.drawingHistory)}
    \cup UNION {UNION {{<<"redo", u, g, i>> : i \in 1..Len(room.userRedoStacks[u][g])}
                        : g \in 1..Len(room.userRedoStacks[u])}
                  : u \in DOMAIN room.userRedoStacks}

\* the stroke object held at a place
At(room, p) ==
    IF p[1] = "log" THEN room.drawingHistory[p[4]]
                    ELSE room.userRedoStacks[p[2]][p[3]][p[4]]

\* C33: in every reachable state each stored stroke object is held at one
\* place only: never twice in the log, never twice in the redo stacks and
\* never in the log and in a redo stack at the same time.
C33_NoDuplicate ==
    \A r \in DOMAIN rooms :
       \A p, q \in Places(rooms[r]) :
          At(rooms[r], p).eid = At(rooms[r], q).eid => p = q

\* C33 witness: A has redone a stroke while a stroke of B is still on B's
\* redo stack: both the log and a redo stack hold objects.
C33_Witness ==
    /\ Last("redo", "A")
    /\ Len(sent) = 1
    /\ TheRoom \in DOMAIN rooms
    /\ LET room == rooms[TheRoom]
       IN  /\ \E i \in 1..Len(room.drawingHistory) : room.drawingHistory[i].userId = "A"
           /\ "B" \in DOMAIN room.userRedoStacks
           /\ Len(room.userRedoStacks["B"]) > 0
           /\ Len(room.userRedoStacks["B"][1]) > 0
----------------------------------------------------------------------------
\* C34: in every reachable state every group of author u's redo stack is
\* non-empty and holds only entries whose userId is u, all with the same
\* strokeId.
C34_RedoGroupsOwn ==
    \A r \in DOMAIN rooms : \A u \in DOMAIN rooms[r].userRedoStacks :
       \A g \in 1..Len(rooms[r].userRedoStacks[u]) :
          LET group == rooms[r].userRedoStacks[u][g]
          IN  /\ Len(group) > 0
              /\ \A i \in 1..Len(group) :
                    /\ group[i].userId = u
                    /\ group[i].strokeId = group[1].strokeId

\* C34 witness: A's redo stack holds a group of two entries of one stroke
\* while the log holds an entry of B under the same strokeId.
C34_Witness ==
    /\ TheRoom \in DOMAIN rooms
    /\ LET room == rooms[TheRoom]
       IN  /\ "A" \in DOMAIN room.userRedoStacks
           /\ Len(room.userRedoStacks["A"]) = 1
           /\ Len(room.userRedoStacks["A"][1]) = 2
           /\ \E i \in 1..Len(room.drawingHistory) :
                 /\ room.drawingHistory[i].userId = "B"
                 /\ room.drawingHistory[i].strokeId = room.userRedoStacks["A"][1][1].strokeId
----------------------------------------------------------------------------
\* the registry after the 'undo' handler has run for socket s
AfterUndo(rs, s) ==
    IF Unjoined(s) \/ sockRoom[s] \notin DOMAIN rs
    THEN rs
    ELSE [rs EXCEPT ![sockRoom[s]] = UndoRoom(@, s)]

\* C35: undos by two different authors commute: from every reachable
\* state, undo by s followed by undo by t leaves the same logs and the same
\* redo stacks as undo by t followed by undo by s.
C35_UndosCommute ==
    \A s, t \in Sockets : s # t =>
       AfterUndo(AfterUndo(rooms, s), t) = AfterUndo(AfterUndo(rooms, t), s)

\* C35 witness: A then B have each undone a stroke of their own; both
\* redo stacks hold a group and the log still holds an entry.
C35_Witness ==
    /\ Last("undo", "B")
    /\ Len(sent) = 1
    /\ TheRoom \in DOMAIN rooms
    /\ LET room == rooms[TheRoom]
       IN  /\ DOMAIN room.userRedoStacks = {"A", "B"}
           /\ Len(room.userRedoStacks["A"]) = 1
           /\ Len(room.userRedoStacks["B"]) = 1
           /\ Len(room.drawingHistory) = 1
           /\ AfterUndo(rooms, "A") # rooms \/ AfterUndo(rooms, "B") # rooms
----------------------------------------------------------------------------
\* the registry after the 'redo' handler has run for socket s
AfterRedo(rs, s) ==
    IF Unjoined(s) \/ sockRoom[s] \notin DOMAIN rs
    THEN rs
    ELSE IF CanRedo(rs[sockRoom[s]], s)
         THEN [rs EXCEPT ![sockRoom[s]] = RedoRoom(@, s)]
         ELSE rs

RECURSIVE UndoTimes(_, _, _)
\* the registry after k 'undo' events of socket s in a row
UndoTimes(rs, s, k) == IF k = 0 THEN rs ELSE AfterUndo(UndoTimes(rs, s, k - 1), s)

RECURSIVE RedoTimes(_, _, _)
\* the registry after k 'redo' events of socket s in a row
RedoTimes(rs, s, k) == IF k = 0 THEN rs ELSE AfterRedo(RedoTimes(rs, s, k - 1), s)

\* k undos then k redos of s leave a room with s's redo stack as it was,
\* the same entries in the log and the other authors' entries in order
Restored(s, k) ==
    LET room == rooms[sockRoom[s]]
        room2 == RedoTimes(UndoTimes(rooms, s, k), s, k)[sockRoom[s]]
    IN  /\ StackOf(room2, s) = StackOf(room, s)
        /\ Len(room2.drawingHistory) = Len(room.drawingHistory)
        /\ Ents(room2.drawingHistory) = Ents(room.drawingHistory)
        /\ Others(room2.drawingHistory, s) = Others(room.drawingHistory, s)

\* each of k undos of s in a row finds an entry of s to remove
AllUndosFind(s, k) ==
    \A j \in 0..(k - 1) :
       LastIndexOfUser(UndoTimes(rooms, s, j)[sockRoom[s]].drawingHistory, s) # 0

\* C36 as stated: from every reachable state, k undos by s followed at
\* once by k redos by s leave s's redo stack as it was and a log with the
\* same multiset of entries, the other authors' entries in their order.
C36_UndosThenRedos ==
    \A s \in Sockets, k \in 1..MaxRoomEvents :
       (status[s] = "open" /\ Bound(s)) => Restored(s, k)

\* C36 amended: the same, when each of the k undos finds an entry of s in
\* the log to remove.
C36_EffectiveUndosThenRedos ==
    \A s \in Sockets, k \in 1..MaxRoomEvents :
       (status[s] = "open" /\ Bound(s) /\ AllUndosFind(s, k)) => Restored(s, k)

\* C36 witness: A has undone two strokes and redone both: the last event
\* was a redo of A that restored a group, A's redo stack is empty, and the
\* log holds B's entry followed by A's two strokes, the first of which was
\* drawn before B's.
C36_Witness ==
    /\ Last("redo", "A")
    /\ Len(sent) = 1
    /\ TheRoom \in DOMAIN rooms
    /\ LET room == rooms[TheRoom]
           h == room.drawingHistory
       IN  /\ StackOf(room, "A") = <<>>
           /\ Len(h) = 3
           /\ h[1].userId = "B" /\ h[2].userId = "A" /\ h[3].userId = "A"
           /\ h[2].strokeId # h[3].strokeId
           /\ h[2].eid < h[1].eid
           /\ AllUndosFind("A", 2)
----------------------------------------------------------------------------
\* C37: participant-list convergence: once every event has been handled
\* and every message delivered, the remoteUsers of every client that is
\* connected and in a room are the participants of its room but itself
\* (every client sends join-room once).
C37_UsersConverge ==
    Quiet =>
       \A s \in Sockets : (~Gone(s) /\ Bound(s)) =>
          remoteUsers[s] = DOMAIN rooms[sockRoom[s]].users \ {s}

\* C37 witness: both clients are in the room and nothing is in flight: the
\* host knows the joiner from user-joined, the joiner knows the host from
\* users-list.
C37_Witness ==
    /\ Quiet
    /\ \A s \in Sockets : ~Gone(s) /\ Bound(s)
    /\ remoteUsers["A"] = {"B"}
    /\ remoteUsers["B"] = {"A"}
----------------------------------------------------------------------------
\* C38: a disconnect that leaves the room in the registry changes neither
\* the room's log nor its redo stacks, and an undo by another connection
\* afterwards removes no entry of a connection that has left: its entries
\* stay in the log, in their order.
C38_StrokesOutliveAuthor ==
    [][/\ \A s \in Sockets :
             (StepOf("disconnect", s) /\ sockRoom[s] \in DOMAIN rooms') =>
                /\ rooms'[sockRoom[s]].drawingHistory = rooms[sockRoom[s]].drawingHistory
                /\ rooms'[sockRoom[s]].userRedoStacks = rooms[sockRoom[s]].userRedoStacks
       /\ \A t \in Sockets : StepOf("undo", t) =>
             \A u \in Sockets : status[u] = "closed" =>
                OfAuthor(rooms'[sockRoom[t]].drawingHistory, u)
                   = OfAuthor(rooms[sockRoom[t]].drawingHistory, u)
      ]_vars

\* C38 witness: B drew and left; A, who stayed, has then undone a stroke of
\* its own, and the entry of B is still in the log.
C38_Witness ==
    /\ Last("undo", "A")
    /\ Len(sent) = 1
    /\ status["B"] = "closed"
    /\ sockRoom["B"] = TheRoom
    /\ TheRoom \in DOMAIN rooms
    /\ Len(OfAuthor(rooms[TheRoom].drawingHistory, "B")) > 0
    /\ Len(StackOf(rooms[TheRoom], "A")) > 0
----------------------------------------------------------------------------
\* the step is a host join-room of socket s for a roomId the registry
\* does not have (never created, or destroyed when its last user left)
HostJoinOfAbsent(s) ==
    /\ ev'.op = "join-room"
    /\ ev'.sock = s
    /\ ev'.isHost
    /\ ev'.roomId \notin DOMAIN rooms

\* the room was created by the step and holds only what a first join of
\* socket s puts in it
FreshFor(s) ==
    /\ ev'.roomId \in DOMAIN rooms'
    /\ \E c \in Capacities :
          rooms'[ev'.roomId] =
             [NewRoom(c) EXCEPT !.users = MapSet(EmptyMap, s, [x |-> 0, y |-> 0])]

\* C39: no state survives a room's destruction: a host join for a roomId
\* that is not in the registry creates a room with an empty log, no redo
\* stacks and the joiner as its only participant.
C39_NothingSurvives ==
    [][\A s \in Sockets : HostJoinOfAbsent(s) => FreshFor(s)]_vars

\* the same, for the host joins that are admitted
C39_NothingSurvivesAdmitted ==
    [][\A s \in Sockets : (HostJoinOfAbsent(s) /\ JoinSucceeded(s)) => FreshFor(s)]_vars

\* in every reachable state, a host join for an absent roomId with
\* capacity c gives the new room that capacity and nothing else
C39_CapacityOfRequest ==
    \A r \in RoomIds \ DOMAIN rooms, c \in Capacities :
       RoomsAfterCreate(rooms, r, c, TRUE)[r] = NewRoom(c)

\* a room that B had alone and left was created again by a host join of A
\* with capacity 1; a stroke had been stored in the room B left
C39_Recreated ==
    /\ Last("join-room", "A")
    /\ ev.isHost
    /\ status["B"] = "closed"
    /\ sockRoom["B"] = "r1"
    /\ DOMAIN rooms = {"r1"}
    /\ nextEid > 0
    /\ rooms["r1"] = [NewRoom(1) EXCEPT !.users = MapSet(EmptyMap, "A", [x |-> 0, y |-> 0])]
====
